---- MODULE Spec2Model ----
(***************************************************************************)
(* The signing service of signer-manager: the gateway handlers of          *)
(* src/service/main.py and the OptimisticNonceManager of                   *)
(* src/service/nonce_manager.py, run as asyncio tasks on one event loop.   *)
(*                                                                         *)
(* A task is one coroutine serving one call at a time.  The event loop     *)
(* switches tasks only where a coroutine awaits; the model lets a task be  *)
(* descheduled at every `async with` (lock acquisition), at the network    *)
(* fetch and between the engine calls, and runs the synchronous code       *)
(* between two such points in one step.  Every schedule of the event loop  *)
(* is a behaviour of the model.                                            *)
(***************************************************************************)
EXTENDS Integers, Sequences, FiniteSets, TLC

\* ---------------------------------------------------------------- bounds
NumTasks == 2
\* the number of requests the service is sent
MaxRequests == 2
\* the number of calls the nonce manager is given
MaxCalls == 3
\* the number of calls in a run of the nonce manager from initialize_account
MaxScenarioCalls == 5
\* the number of requests the service is given when accounts share a key index
MaxSessionRequests == 3
MaxApiNonce == 1
MaxProvidedNonce == 1

Tasks == 1..NumTasks
\* the account and key-slot indices, endpoints and keys that requests name
Accounts == {1, 2}
Keys == {1}
Urls == {"http://x"}
\* the urls with "mainnet" in them
MainnetUrls == Urls \cap {"https://mainnet.x"}
\* request.chain_id: <<>> is None
ChainIds == {<<>>}
PrivateKeys == {"key"}
None == "None"
\* the values a caller can put in the request's nonce field; -1 is "auto"
ProvidedNonces == (-1)..MaxProvidedNonce
\* what GET /api/v1/nextNonce can answer: a nonce, or "fail" (status, timeout)
FetchResults == [ok : {TRUE}, nonce : 0..MaxApiNonce] \cup {[ok |-> FALSE, nonce |-> 0]}

VARIABLES
    signer,               \* main.py: signer is not None
    clients,              \* main.py: clients, keyed by get_client_key
    api_key_dict,         \* main.py: api_key_dict, api_key_index -> private key
    global_signer_lock,   \* main.py: global_signer_lock
    nonces,               \* nonce_manager.nonces: account -> (key -> counter)
    lock,                 \* nonce_manager.lock
    api_urls,             \* nonce_manager.api_urls: account -> url
    account_locks,        \* nonce_manager.account_locks: (account, key) -> lock object
    locks,                \* the asyncio.Lock objects get_account_lock has created
    task,                 \* each coroutine: position, request, locals, outcome
    started,              \* number of calls started so far
    engine,               \* the signer library's sessions: txClient, backupTxClients
    last                  \* per slot, the last completed nonce manager call

vars == <<signer, clients, api_key_dict, global_signer_lock, nonces, lock, api_urls,
          account_locks, locks, task, started, last, engine>>

\* ------------------------------------------------------------- asyncio.Lock
\* A lock is its holder (0: free) and the FIFO queue of waiting tasks.
FreeLock == [holder |-> 0, waiters |-> <<>>]

\* an acquire that does not look whether the lock is held
AcquireUnchecked(l, t) == [l EXCEPT !.holder = t]

\* lock.acquire(): taken at once when free with nobody queued, else queue up
Acquire(l, t) ==
    IF l.holder = 0 /\ l.waiters = <<>>
    THEN [l EXCEPT !.holder = t]
    ELSE [l EXCEPT !.waiters = Append(@, t)]

\* a release that leaves the lock held, as an exit path without release would
ReleaseNever(l) == l

\* lock.release(): the first waiter is woken and is the next holder
Release(l) ==
    IF l.waiters = <<>>
    THEN [l EXCEPT !.holder = 0]
    ELSE [holder |-> Head(l.waiters), waiters |-> Tail(l.waiters)]

Waiting(l, t) == \E i \in 1..Len(l.waiters) : l.waiters[i] = t

\* ------------------------------------------------------------- dictionaries
Put(f, x, v) == [y \in (DOMAIN f) \cup {x} |-> IF y = x THEN v ELSE f[y]]

Slots == Accounts \X Keys
\* the slot the nonce manager's callers work on, next to calls for the others
Slot1 == <<1, 1>>
\* two key slots of one account, and the endpoint each is registered with
EndpointSlots == {<<1, 1>>, <<1, 2>>}
EndpointOf(s) == IF s = Slot1 THEN "http://x" ELSE "http://y"
\* the endpoints a slot is registered and registered again with
EndpointUrls == {"http://x", "http://y"}

\* main.py get_client_key: f"{api_key_index}:{account_index}"
get_client_key(api_key_index, account_index) == <<api_key_index, account_index>>

HasNonce(n, a, k) == a \in DOMAIN n /\ k \in DOMAIN n[a]

\* what get_current_nonce returns for the cache n
CurrentNonce(n, a, k) == IF HasNonce(n, a, k) THEN n[a][k] ELSE -1

\* `if account_index not in self.nonces: self.nonces[account_index] = {}`
EnsureAccount(n, a) == IF a \in DOMAIN n THEN n ELSE Put(n, a, <<>>)


\* a store that keeps one counter per account: every key slot the account has,
\* and k, gets the value
SetNonceOfAccount(n, a, k, v) ==
    Put(n, a, [j \in DOMAIN EnsureAccount(n, a)[a] \cup {k} |-> v])

SetNonce(n, a, k, v) == Put(n, a, Put(EnsureAccount(n, a)[a], k, v))

\* a seeding that stores the fetched nonce itself
SeedExact(r) == IF r.ok THEN r.nonce ELSE 0

\* a seeding that falls back to -1 when the fetch fails
SeedFallbackBelow(r) == IF r.ok THEN r.nonce - 1 ELSE -1

\* the seed a fetch result gives: nonce - 1, or 0 when the fetch failed
SeedOf(r) == IF r.ok THEN r.nonce - 1 ELSE 0

\* get_account_lock that makes a new lock on every call
get_account_lock_fresh(al, ls, key) ==
    [account_locks |-> Put(al, key, Len(ls) + 1),
     locks |-> Append(ls, FreeLock), id |-> Len(ls) + 1]

\* get_account_lock: the lock of `key`, made on first reference
get_account_lock(al, ls, key) ==
    IF key \in DOMAIN al
    THEN [account_locks |-> al, locks |-> ls, id |-> al[key]]
    ELSE [account_locks |-> Put(al, key, Len(ls) + 1),
          locks |-> Append(ls, FreeLock), id |-> Len(ls) + 1]

\* ------------------------------------------------------------------ tasks
SignOps == {"sign_create_order", "sign_transfer"}
\* the endpoints that add the L1 signature to the engine's payload
CoSignOps == {"sign_transfer"}

IdleTask ==
    [pc |-> "idle", op |-> "none", account_index |-> 0, api_key_index |-> 0,
     provided_nonce |-> -1, api_url |-> None, chain_id |-> 0,
     private_key |-> None, account_lock |-> 0, ret |-> <<>>, status |-> 0,
     detail |-> "", calls |-> <<>>]

Request(op, a, k, p, u, pc) ==
    [IdleTask EXCEPT !.pc = pc, !.op = op, !.account_index = a,
                     !.api_key_index = k, !.provided_nonce = p, !.api_url = u]

\* the coroutine of task t is free to serve a call
Idle(t) == task[t].pc \in {"idle", "done"}

\* a call ends and its locals are gone: what stays is the call (op, slot), the
\* value returned and the status: 200 when it returns, else the HTTPException's
Finish(r, status) ==
    [IdleTask EXCEPT !.pc = "done", !.op = r.op, !.account_index = r.account_index,
                     !.api_key_index = r.api_key_index, !.ret = r.ret,
                     !.detail = r.detail, !.status = status, !.calls = r.calls]

\* the handler of record r calls the engine's function f, which answers an
\* error string (err) or none: calls is the list of the engine calls the
\* request has made so far
Engine(r, f, err) == [r EXCEPT !.calls = Append(@, [f |-> f, err |-> err])]

\* a call ends with HTTPException(status, detail)
Fail(r, status, detail) == Finish([r EXCEPT !.ret = <<>>, !.detail = detail], status)

\* what a call saw of the endpoint: no fetch made, or the fetch failed;
\* otherwise the nonce the endpoint answered
NoFetch == -2
FetchFailed == -1
FetchOf(f) == IF f.ok THEN f.nonce ELSE FetchFailed

\* nothing was called on the slot yet
NoCall == [op |-> "none", provided |-> -1, before |-> -1, cached |-> -1,
           after |-> -1, ret |-> -1, created |-> FALSE, seed |-> <<>>,
           auto |-> <<>>, bumped |-> FALSE, fetch |-> NoFetch, run |-> <<>>,
           floor |-> -1]

\* a call's record without the record of the call before it
Flat(c) == [f \in DOMAIN NoCall |-> c[f]]

Init ==
    /\ signer \in BOOLEAN
    /\ clients = <<>>
    /\ api_key_dict = <<>>
    /\ global_signer_lock = FreeLock
    /\ nonces = <<>>
    /\ lock = FreeLock
    /\ api_urls = <<>>
    /\ account_locks = <<>>
    /\ locks = <<>>
    /\ task = [t \in Tasks |-> IdleTask]
    /\ started = 0
    /\ engine = [txClient |-> <<>>, backupTxClients |-> <<>>]
    /\ last = [s \in Slots \cup EndpointSlots |-> [op |-> NoCall.op, provided |-> NoCall.provided,
                              before |-> NoCall.before, cached |-> NoCall.cached,
                              after |-> NoCall.after, ret |-> NoCall.ret,
                              created |-> NoCall.created, seed |-> NoCall.seed,
                              auto |-> NoCall.auto, bumped |-> NoCall.bumped,
                              fetch |-> NoCall.fetch, run |-> NoCall.run,
                              floor |-> NoCall.floor,
                              prior |-> NoCall]]

\* ------------------------------------------------- OptimisticNonceManager
\* get_next_nonce whose auto-increment does not store the new counter
get_next_nonce_stale(n, a, k, p) ==
    IF p >= 0
    THEN [nonces |-> IF p > n[a][k] THEN SetNonce(n, a, k, p) ELSE n, ret |-> p]
    ELSE [nonces |-> n, ret |-> n[a][k] + 1]

\* get_next_nonce whose supplied nonce always overwrites the cache
get_next_nonce_overwrite(n, a, k, p) ==
    IF p >= 0
    THEN [nonces |-> SetNonce(n, a, k, p), ret |-> p]
    ELSE [nonces |-> SetNonce(n, a, k, n[a][k] + 1), ret |-> n[a][k] + 1]

\* get_next_nonce whose supplied nonce never raises the cache
get_next_nonce_noraise(n, a, k, p) ==
    IF p >= 0
    THEN [nonces |-> n, ret |-> p]
    ELSE [nonces |-> SetNonce(n, a, k, n[a][k] + 1), ret |-> n[a][k] + 1]

\* get_next_nonce, lines 136-151, on a cache n that holds the slot:
\* a supplied nonce is returned as it is and raises the cache to it,
\* otherwise the counter is incremented and returned
get_next_nonce_result(n, a, k, p) ==
    IF p >= 0
    THEN [nonces |-> IF p > n[a][k] THEN SetNonce(n, a, k, p) ELSE n, ret |-> p]
    ELSE [nonces |-> SetNonce(n, a, k, n[a][k] + 1), ret |-> n[a][k] + 1]

\* acknowledge_failure that leaves the counter as it is
acknowledge_failure_noop(n, a, k) == n

\* acknowledge_failure that decrements by two
acknowledge_failure_twice(n, a, k) ==
    IF HasNonce(n, a, k) THEN SetNonce(n, a, k, n[a][k] - 2) ELSE n


\* acknowledge_failure that rolls back a slot without a counter from 0,
\* creating its entry
acknowledge_failure_default(n, a, k) ==
    SetNonce(n, a, k, (IF HasNonce(n, a, k) THEN n[a][k] ELSE 0) - 1)

\* acknowledge_failure, lines 162-165
acknowledge_failure_result(n, a, k) ==
    IF HasNonce(n, a, k) THEN SetNonce(n, a, k, n[a][k] - 1) ELSE n

\* The record of a completed call `op` on a slot, after the record `prev`:
\* provided, the nonce supplied; before, what get_current_nonce gave when the
\* call took self.lock; cached, the counter once the call had initialised the
\* slot; after, what get_current_nonce gives when the call returns; ret, the
\* nonce returned; created, the call made the slot's entry; seed, the value
\* the entry was made with; auto, the nonce the latest unsupplied call
\* returned, forgotten by a rollback or a refresh; bumped, a supplied nonce
\* raised the counter since that call; fetch, what the call's fetch answered;
\* run, the number of unsupplied get_next_nonce calls that followed, with no
\* other call between, the initialize_account that made the entry; floor, the
\* highest nonce supplied since the latest rollback or refresh (-1: none);
\* prior, the record of the call before
Called(prev, op, p, before, cached, after, ret, created, fetch) ==
    [op |-> op, provided |-> p, before |-> before, cached |-> cached,
     after |-> after, ret |-> ret, created |-> created,
     seed |-> IF created THEN <<cached>> ELSE prev.seed,
     auto |-> IF op = "get_next_nonce"
              THEN (IF p < 0 THEN <<ret>> ELSE prev.auto)
              ELSE IF op = "initialize_account" THEN prev.auto ELSE <<>>,
     bumped |-> IF op = "get_next_nonce"
                THEN (IF p < 0 THEN FALSE ELSE prev.bumped \/ p > cached)
                ELSE IF op = "initialize_account" THEN prev.bumped ELSE FALSE,
     fetch |-> fetch,
     run |-> IF op = "initialize_account" /\ created THEN <<0>>
             ELSE IF op = "get_next_nonce" /\ p < 0 /\ prev.run # <<>>
             THEN <<prev.run[1] + 1>>
             ELSE <<>>,
     floor |-> IF op \in {"acknowledge_failure", "hard_refresh_nonce"} THEN -1
               ELSE IF op = "get_next_nonce" /\ p > prev.floor THEN p
               ELSE prev.floor,
     prior |-> Flat(prev)]

\* a direct call of nonce_manager.get_next_nonce: up to `async with self.lock`
CallGetNextNonce(t, S, P, U) ==
    /\ Idle(t)
    /\ \E s \in S, p \in P, u \in U :
          LET a == s[1]
              k == s[2]
          IN task' = [task EXCEPT ![t] = Request("get_next_nonce", a, k, p, u, "gn_lock")]
    /\ lock' = Acquire(lock, t)
    /\ started' = started + 1
    /\ UNCHANGED <<signer, engine, clients, api_key_dict, global_signer_lock, nonces,
                   api_urls, account_locks, locks, last>>


\* get_next_nonce that hands the nonce to its caller with self.lock still held
GetNextNonceReturnHolding(t, n1, fetch) ==
    LET r == task[t]
        a == r.account_index
        k == r.api_key_index
        res == get_next_nonce_result(n1, a, k, r.provided_nonce)
    IN  /\ nonces' = res.nonces
        /\ last' = [last EXCEPT ![<<a, k>>] =
                      Called(@, "get_next_nonce", r.provided_nonce,
                             CurrentNonce(nonces, a, k), n1[a][k],
                             res.nonces[a][k], res.ret, ~HasNonce(nonces, a, k), fetch)]
        /\ IF r.op \in SignOps
           THEN /\ global_signer_lock' = Acquire(global_signer_lock, t)
                /\ task' = [task EXCEPT ![t].pc = "sign_global", ![t].ret = <<res.ret>>]
                /\ UNCHANGED lock
           ELSE /\ task' = [task EXCEPT ![t] = Finish([r EXCEPT !.ret = <<res.ret>>], 200)]
                /\ lock' = Release(lock)
                /\ UNCHANGED global_signer_lock
        /\ UNCHANGED <<signer, engine, clients, api_key_dict, account_locks, locks, started>>

\* lines 134-151 and what the caller does with the returned nonce: n1 is the
\* cache once the slot is initialised
GetNextNonceReturn(t, n1, fetch) ==
    LET r == task[t]
        a == r.account_index
        k == r.api_key_index
        res == get_next_nonce_result(n1, a, k, r.provided_nonce)
    IN  /\ nonces' = res.nonces
        /\ lock' = Release(lock)
        /\ last' = [last EXCEPT ![<<a, k>>] =
                      Called(@, "get_next_nonce", r.provided_nonce,
                             CurrentNonce(nonces, a, k), n1[a][k],
                             res.nonces[a][k], res.ret, ~HasNonce(nonces, a, k), fetch)]
        /\ IF r.op \in SignOps
           THEN \* main.py: managed_nonce = ...; async with global_signer_lock
                /\ global_signer_lock' = Acquire(global_signer_lock, t)
                /\ task' = [task EXCEPT ![t].pc = "sign_global", ![t].ret = <<res.ret>>]
           ELSE /\ task' = [task EXCEPT ![t] = Finish([r EXCEPT !.ret = <<res.ret>>], 200)]
                /\ UNCHANGED global_signer_lock
        /\ UNCHANGED <<signer, engine, clients, api_key_dict, account_locks, locks, started>>


\* get_next_nonce that fetches and seeds whenever it is given an endpoint,
\* whether or not the slot has a counter
GetNextNonceRefetch(t) ==
    LET r == task[t]
        a == r.account_index
        k == r.api_key_index
        n1 == EnsureAccount(nonces, a)
    IN  /\ r.pc = "gn_lock"
        /\ lock.holder = t
        /\ IF r.api_url # None
           THEN /\ api_urls' = Put(api_urls, a, r.api_url)
                /\ nonces' = n1
                /\ task' = [task EXCEPT ![t].pc = "gn_fetch"]
                /\ UNCHANGED <<signer, engine, clients, api_key_dict, global_signer_lock, lock,
                               account_locks, locks, started, last>>
           ELSE IF k \in DOMAIN n1[a]
           THEN GetNextNonceReturn(t, n1, NoFetch) /\ UNCHANGED api_urls
           ELSE GetNextNonceReturn(t, SetNonce(n1, a, k, 0), NoFetch) /\ UNCHANGED api_urls

\* get_next_nonce once it holds self.lock, lines 115-151, up to the fetch
GetNextNonceLocked(t) ==
    LET r == task[t]
        a == r.account_index
        k == r.api_key_index
        n1 == EnsureAccount(nonces, a)
    IN  /\ r.pc = "gn_lock"
        /\ lock.holder = t
        /\ IF k \in DOMAIN n1[a]
           THEN GetNextNonceReturn(t, n1, NoFetch) /\ UNCHANGED api_urls
           ELSE IF r.api_url # None
           THEN /\ api_urls' = Put(api_urls, a, r.api_url)
                /\ nonces' = n1
                /\ task' = [task EXCEPT ![t].pc = "gn_fetch"]
                /\ UNCHANGED <<signer, engine, clients, api_key_dict, global_signer_lock, lock,
                               account_locks, locks, started, last>>
           ELSE GetNextNonceReturn(t, SetNonce(n1, a, k, 0), NoFetch) /\ UNCHANGED api_urls

\* get_nonce_from_api answers (or fails): lines 124-128, then 134-151
GetNextNonceFetched(t) ==
    LET r == task[t] IN
    /\ r.pc = "gn_fetch"
    /\ \E f \in FetchResults :
          GetNextNonceReturn(t, SetNonce(nonces, r.account_index, r.api_key_index, SeedOf(f)),
                             FetchOf(f))
    /\ UNCHANGED api_urls

\* acknowledge_failure: up to `async with self.lock`
CallAcknowledgeFailure(t, S) ==
    /\ Idle(t)
    /\ \E s \in S :
          LET a == s[1]
              k == s[2]
          IN task' = [task EXCEPT ![t] = Request("acknowledge_failure", a, k, -1, None, "ack_lock")]
    /\ lock' = Acquire(lock, t)
    /\ started' = started + 1
    /\ UNCHANGED <<signer, engine, clients, api_key_dict, global_signer_lock, nonces,
                   api_urls, account_locks, locks, last>>

\* acknowledge_failure under self.lock, lines 162-166
AcknowledgeFailureLocked(t) ==
    LET r == task[t]
        a == r.account_index
        k == r.api_key_index
        n1 == acknowledge_failure_result(nonces, a, k)
    IN  /\ r.pc = "ack_lock"
        /\ lock.holder = t
        /\ nonces' = n1
        /\ lock' = Release(lock)
        /\ last' = [last EXCEPT ![<<a, k>>] =
                      Called(@, "acknowledge_failure", -1, CurrentNonce(nonces, a, k),
                             CurrentNonce(nonces, a, k), CurrentNonce(n1, a, k),
                             -1, FALSE, NoFetch)]
        /\ task' = [task EXCEPT ![t] = Finish(r, 200)]
        /\ UNCHANGED <<signer, engine, clients, api_key_dict, global_signer_lock, api_urls,
                       account_locks, locks, started>>

\* get_current_nonce: up to `async with self.lock`
CallGetCurrentNonce(t, S) ==
    /\ Idle(t)
    /\ \E s \in S :
          LET a == s[1]
              k == s[2]
          IN task' = [task EXCEPT ![t] = Request("get_current_nonce", a, k, -1, None, "gc_lock")]
    /\ lock' = Acquire(lock, t)
    /\ started' = started + 1
    /\ UNCHANGED <<signer, engine, clients, api_key_dict, global_signer_lock, nonces,
                   api_urls, account_locks, locks, last>>

\* get_current_nonce under self.lock, lines 195-197
GetCurrentNonceLocked(t) ==
    LET r == task[t] IN
    /\ r.pc = "gc_lock"
    /\ lock.holder = t
    /\ lock' = Release(lock)
    /\ task' = [task EXCEPT ![t] =
                  Finish([r EXCEPT !.ret = <<CurrentNonce(nonces, r.account_index,
                                                          r.api_key_index)>>], 200)]
    /\ UNCHANGED <<signer, engine, clients, api_key_dict, global_signer_lock, nonces, api_urls,
                   account_locks, locks, started, last>>

\* hard_refresh_nonce that stores the fetched nonce itself
hard_refresh_nonce_exact(n, a, k, f) ==
    IF f.ok THEN SetNonce(EnsureAccount(n, a), a, k, f.nonce) ELSE n


\* hard_refresh_nonce that falls back to 0 when the fetch fails, as the
\* seeding does
hard_refresh_nonce_fallback(n, a, k, f) ==
    SetNonce(EnsureAccount(n, a), a, k, IF f.ok THEN f.nonce - 1 ELSE 0)

\* hard_refresh_nonce, lines 183-190, once the fetch has answered f: the
\* counter becomes the fetched nonce - 1; a failed fetch changes nothing
hard_refresh_nonce_result(n, a, k, f) ==
    IF f.ok THEN SetNonce(EnsureAccount(n, a), a, k, f.nonce - 1) ELSE n

\* hard_refresh_nonce: up to `async with self.lock`
CallHardRefreshNonce(t, S) ==
    /\ Idle(t)
    /\ \E s \in S :
          LET a == s[1]
              k == s[2]
          IN task' = [task EXCEPT ![t] = Request("hard_refresh_nonce", a, k, -1, None, "hr_lock")]
    /\ lock' = Acquire(lock, t)
    /\ started' = started + 1
    /\ UNCHANGED <<signer, engine, clients, api_key_dict, global_signer_lock, nonces,
                   api_urls, account_locks, locks, last>>

\* hard_refresh_nonce under self.lock, lines 177-183: no url, or start the fetch
HardRefreshNonceLocked(t) ==
    LET r == task[t]
        a == r.account_index
        k == r.api_key_index
    IN  /\ r.pc = "hr_lock"
        /\ lock.holder = t
        /\ IF a \in DOMAIN api_urls
           THEN /\ task' = [task EXCEPT ![t].pc = "hr_fetch", ![t].api_url = api_urls[a]]
                /\ UNCHANGED <<lock, last>>
           ELSE /\ task' = [task EXCEPT ![t] = Finish(r, 200)]
                /\ lock' = Release(lock)
                /\ last' = [last EXCEPT ![<<a, k>>] =
                              Called(@, "hard_refresh_nonce", -1, CurrentNonce(nonces, a, k),
                                     CurrentNonce(nonces, a, k),
                                     CurrentNonce(nonces, a, k), -1, FALSE, NoFetch)]
        /\ UNCHANGED <<signer, engine, clients, api_key_dict, global_signer_lock, nonces, api_urls,
                       account_locks, locks, started>>

\* the refresh fetch answers (or fails), lines 183-190
HardRefreshNonceFetched(t) ==
    LET r == task[t]
        a == r.account_index
        k == r.api_key_index
    IN  /\ r.pc = "hr_fetch"
        /\ \E f \in FetchResults :
              LET n1 == hard_refresh_nonce_result(nonces, a, k, f) IN
              /\ nonces' = n1
              /\ last' = [last EXCEPT ![<<a, k>>] =
                            Called(@, "hard_refresh_nonce", -1, CurrentNonce(nonces, a, k),
                                   CurrentNonce(n1, a, k), CurrentNonce(n1, a, k), -1,
                                   f.ok /\ ~HasNonce(nonces, a, k), FetchOf(f))]
        /\ lock' = Release(lock)
        /\ task' = [task EXCEPT ![t] = Finish(r, 200)]
        /\ UNCHANGED <<signer, engine, clients, api_key_dict, global_signer_lock, api_urls,
                       account_locks, locks, started>>

\* a direct call of initialize_account for a slot of S with an endpoint of U:
\* up to `async with self.lock`
CallInitializeAccountAt(t, S, U) ==
    /\ Idle(t)
    /\ \E s \in S, u \in U :
          LET a == s[1]
              k == s[2]
          IN task' = [task EXCEPT ![t] = Request("initialize_account", a, k, -1, u, "ia_lock")]
    /\ lock' = Acquire(lock, t)
    /\ started' = started + 1
    /\ UNCHANGED <<signer, engine, clients, api_key_dict, global_signer_lock, nonces,
                   api_urls, account_locks, locks, last>>

\* a direct call of initialize_account with any of the endpoints
CallInitializeAccount(t, S) == CallInitializeAccountAt(t, S, Urls)

\* initialize_account returns (self.lock released) to its caller: create_client
\* leaves `async with global_signer_lock` and answers, a direct caller is done
InitializeAccountReturn(t, n1, fetch) ==
    LET r == task[t]
        a == r.account_index
        k == r.api_key_index
    IN  /\ nonces' = n1
        /\ lock' = Release(lock)
        /\ last' = [last EXCEPT ![<<a, k>>] =
                      Called(@, "initialize_account", -1, CurrentNonce(nonces, a, k),
                             CurrentNonce(n1, a, k), CurrentNonce(n1, a, k), -1,
                             ~HasNonce(nonces, a, k), fetch)]
        /\ task' = [task EXCEPT ![t] = Finish(r, 200)]
        /\ global_signer_lock' = IF r.op = "create_client"
                                 THEN Release(global_signer_lock)
                                 ELSE global_signer_lock
        /\ UNCHANGED <<signer, engine, clients, api_key_dict, account_locks, locks, started>>


\* initialize_account that fetches and seeds whether or not the slot has a counter
InitializeAccountRefetch(t) ==
    LET r == task[t] IN
    /\ r.pc = "ia_lock"
    /\ lock.holder = t
    /\ api_urls' = Put(api_urls, r.account_index, r.api_url)
    /\ nonces' = EnsureAccount(nonces, r.account_index)
    /\ task' = [task EXCEPT ![t].pc = "ia_fetch"]
    /\ UNCHANGED <<signer, engine, clients, api_key_dict, global_signer_lock, lock,
                   account_locks, locks, started, last>>

\* initialize_account under self.lock, lines 77-86
InitializeAccountLocked(t) ==
    LET r == task[t]
        a == r.account_index
        k == r.api_key_index
        n1 == EnsureAccount(nonces, a)
    IN  /\ r.pc = "ia_lock"
        /\ lock.holder = t
        /\ api_urls' = Put(api_urls, a, r.api_url)
        /\ IF k \in DOMAIN n1[a]
           THEN InitializeAccountReturn(t, n1, NoFetch)
           ELSE /\ nonces' = n1
                /\ task' = [task EXCEPT ![t].pc = "ia_fetch"]
                /\ UNCHANGED <<signer, engine, clients, api_key_dict, global_signer_lock, lock,
                               account_locks, locks, started, last>>

\* the seeding fetch answers (or fails), lines 86-93
InitializeAccountFetched(t) ==
    LET r == task[t] IN
    /\ r.pc = "ia_fetch"
    /\ \E f \in FetchResults :
          InitializeAccountReturn(t, SetNonce(nonces, r.account_index, r.api_key_index, SeedOf(f)),
                                  FetchOf(f))
    /\ UNCHANGED api_urls

\* a direct call of get_account_lock, lines 211-214 (no await)
CallGetAccountLock(t, S) ==
    /\ Idle(t)
    /\ \E s \in S :
          LET g == get_account_lock(account_locks, locks, s) IN
          /\ account_locks' = g.account_locks
          /\ locks' = g.locks
          /\ task' = [task EXCEPT ![t] =
                        Finish([Request("get_account_lock", s[1], s[2], -1, None, "done")
                                  EXCEPT !.ret = <<g.id>>], 200)]
    /\ started' = started + 1
    /\ UNCHANGED <<signer, engine, clients, api_key_dict, global_signer_lock, nonces, lock,
                   api_urls, last>>

\* ------------------------------------------------------------- the gateway

\* The signer library keeps one active client, txClient, and the clients it
\* has created in backupTxClients, keyed by the api key index alone
\* (main.py, lines 119-123).  A client is the <<account, key>> pair it signs for.
\* CreateClient(url, private_key, chain_id, api_key_index, account_index)
\* stores the new client under its key index and makes it the active one
CreateClient(e, a, k) ==
    [txClient |-> <<a, k>>, backupTxClients |-> Put(e.backupTxClients, k, <<a, k>>)]

\* SwitchAPIKey(api_key_index) makes the client stored under the key index the
\* active one; with no client under the key index the active client stays
\* (whether a call answers an error string is chosen where the handler calls it)
SwitchAPIKey(e, k) ==
    IF k \in DOMAIN e.backupTxClients
    THEN [e EXCEPT !.txClient = e.backupTxClients[k]]
    ELSE e

\* the sessions after the engine call request r has just made: a call that
\* answers an error string changes nothing
EngineCalled(e, r) ==
    IF r.calls = <<>> \/ r.calls[Len(r.calls)].err
    THEN e
    ELSE CASE r.calls[Len(r.calls)].f = "CreateClient" ->
                 CreateClient(e, r.account_index, r.api_key_index)
           [] r.calls[Len(r.calls)].f = "SwitchAPIKey" -> SwitchAPIKey(e, r.api_key_index)
           [] OTHER -> e

\* _switch_api_key_internal and the engine calls answer an error string or not
EngineErrors == BOOLEAN

\* create_client lines 314-316
ChainIdOf(c, u) == IF c # <<>> THEN c[1] ELSE IF u \in MainnetUrls THEN 304 ELSE 300

\* create_client for a slot of S with a url of U, lines 310-323: up to
\* `async with global_signer_lock`
CallCreateClientAt(t, S, U) ==
    /\ Idle(t)
    /\ \E s \in S, u \in U, pk \in PrivateKeys, c \in ChainIds :
          LET a == s[1]
              k == s[2]
              r == [Request("create_client", a, k, -1, u, "cc_global")
                      EXCEPT !.chain_id = ChainIdOf(c, u), !.private_key = pk]
          IN  IF signer
              THEN /\ task' = [task EXCEPT ![t] = r]
                   /\ global_signer_lock' = Acquire(global_signer_lock, t)
              ELSE /\ task' = [task EXCEPT ![t] = Fail(r, 500, "Signer not initialized")]
                   /\ UNCHANGED global_signer_lock
    /\ started' = started + 1
    /\ UNCHANGED <<signer, engine, clients, api_key_dict, nonces, lock, api_urls,
                   account_locks, locks, last>>


\* create_client with any of the urls
CallCreateClient(t, S) == CallCreateClientAt(t, S, Urls)

\* create_client that registers the client and answers without calling
\* initialize_account
CreateClientUnseeded(t) ==
    LET r == task[t]
        a == r.account_index
        k == r.api_key_index
    IN  /\ r.pc = "cc_global"
        /\ global_signer_lock.holder = t
        /\ api_key_dict' = Put(api_key_dict, k, r.private_key)
        /\ global_signer_lock' = Release(global_signer_lock)
        /\ \E err \in EngineErrors :
              IF err
              THEN /\ task' = [task EXCEPT ![t] =
                                 Fail(Engine(r, "CreateClient", err), 400, "engine")]
                   /\ UNCHANGED clients
              ELSE /\ clients' = Put(clients, get_client_key(k, a),
                                     [url |-> r.api_url, chain_id |-> r.chain_id,
                                      api_key_index |-> k, account_index |-> a])
                   /\ task' = [task EXCEPT ![t] =
                                 Finish(Engine(r, "CreateClient", err), 200)]
        /\ engine' = EngineCalled(engine, task'[t])
        /\ UNCHANGED <<signer, nonces, lock, api_urls, account_locks, locks, started, last>>

\* create_client under the global lock, lines 324-358: CreateClient, the
\* registration, and the call of initialize_account up to its self.lock
CreateClientLocked(t) ==
    LET r == task[t]
        a == r.account_index
        k == r.api_key_index
    IN  /\ r.pc = "cc_global"
        /\ global_signer_lock.holder = t
        /\ api_key_dict' = Put(api_key_dict, k, r.private_key)
        /\ \E err \in EngineErrors :
              IF err
              THEN /\ global_signer_lock' = Release(global_signer_lock)
                   /\ task' = [task EXCEPT ![t] =
                                 Fail(Engine(r, "CreateClient", err), 400, "engine")]
                   /\ UNCHANGED <<clients, lock>>
              ELSE /\ clients' = Put(clients, get_client_key(k, a),
                                     [url |-> r.api_url, chain_id |-> r.chain_id,
                                      api_key_index |-> k, account_index |-> a])
                   /\ lock' = Acquire(lock, t)
                   /\ task' = [task EXCEPT ![t] =
                                 [Engine(r, "CreateClient", err) EXCEPT !.pc = "ia_lock"]]
                   /\ UNCHANGED global_signer_lock
        /\ engine' = EngineCalled(engine, task'[t])
        /\ UNCHANGED <<signer, nonces, api_urls, account_locks, locks, started, last>>

\* check_client, lines 379-381: up to `async with global_signer_lock`
CallCheckClient(t, S) ==
    /\ Idle(t)
    /\ \E s \in S :
          task' = [task EXCEPT ![t] = Request("check_client", s[1], s[2], -1, None, "chk_global")]
    /\ global_signer_lock' = Acquire(global_signer_lock, t)
    /\ started' = started + 1
    /\ UNCHANGED <<signer, engine, clients, api_key_dict, nonces, lock, api_urls,
                   account_locks, locks, last>>

\* check_client that does not wait for the global lock before CheckClient
CheckClientUnlocked(t) ==
    LET r == task[t] IN
    /\ r.pc = "chk_global"
    /\ global_signer_lock' =
          IF global_signer_lock.holder = t
          THEN Release(global_signer_lock)
          ELSE [global_signer_lock EXCEPT !.waiters = SelectSeq(@, LAMBDA x : x # t)]
    /\ IF signer
       THEN \E err \in EngineErrors :
               task' = [task EXCEPT ![t] =
                          Finish([Engine(r, "CheckClient", err) EXCEPT
                                    !.detail = IF err THEN "error" ELSE "message"], 200)]
       ELSE task' = [task EXCEPT ![t] = Fail(r, 500, "exception")]
    /\ UNCHANGED <<signer, engine, clients, api_key_dict, nonces, lock, api_urls,
                   account_locks, locks, started, last>>

\* check_client under the global lock, lines 382-393
CheckClientLocked(t) ==
    LET r == task[t] IN
    /\ r.pc = "chk_global"
    /\ global_signer_lock.holder = t
    /\ global_signer_lock' = Release(global_signer_lock)
    /\ IF signer
       THEN \E err \in EngineErrors :
               task' = [task EXCEPT ![t] =
                          Finish([Engine(r, "CheckClient", err) EXCEPT
                                    !.detail = IF err THEN "error" ELSE "message"], 200)]
       ELSE task' = [task EXCEPT ![t] = Fail(r, 500, "exception")]
    /\ UNCHANGED <<signer, engine, clients, api_key_dict, nonces, lock, api_urls,
                   account_locks, locks, started, last>>

\* switch_api_key, lines 401-402: up to `async with global_signer_lock`
CallSwitchApiKey(t) ==
    /\ Idle(t)
    /\ \E k \in Keys :
          task' = [task EXCEPT ![t] = Request("switch_api_key", 0, k, -1, None, "sw_global")]
    /\ global_signer_lock' = Acquire(global_signer_lock, t)
    /\ started' = started + 1
    /\ UNCHANGED <<signer, engine, clients, api_key_dict, nonces, lock, api_urls,
                   account_locks, locks, last>>

\* switch_api_key under the global lock: _switch_api_key_internal, lines 279-290
SwitchApiKeyLocked(t) ==
    LET r == task[t] IN
    /\ r.pc = "sw_global"
    /\ global_signer_lock.holder = t
    /\ global_signer_lock' = Release(global_signer_lock)
    /\ IF signer
       THEN \E err \in EngineErrors :
               task' = [task EXCEPT ![t] =
                          IF err THEN Fail(Engine(r, "SwitchAPIKey", err), 400, "switch")
                          ELSE Finish(Engine(r, "SwitchAPIKey", err), 200)]
       ELSE task' = [task EXCEPT ![t] = Fail(r, 500, "Signer not initialized")]
    /\ engine' = EngineCalled(engine, task'[t])
    /\ UNCHANGED <<signer, clients, api_key_dict, nonces, lock, api_urls,
                   account_locks, locks, started, last>>


\* a create_auth_token that makes and takes an account lock for its key slot
CallCreateAuthTokenAccountLock(t) ==
    /\ Idle(t)
    /\ \E k \in Keys :
          LET r == Request("create_auth_token", 0, k, -1, None, "at_global")
              g == get_account_lock(account_locks, locks, <<0, k>>)
          IN
          IF signer
          THEN /\ task' = [task EXCEPT ![t] = r]
               /\ global_signer_lock' = Acquire(global_signer_lock, t)
               /\ account_locks' = g.account_locks
               /\ locks' = [g.locks EXCEPT ![g.id] = Acquire(@, t)]
          ELSE /\ task' = [task EXCEPT ![t] = Fail(r, 500, "Signer not initialized")]
               /\ UNCHANGED <<global_signer_lock, account_locks, locks>>
    /\ started' = started + 1
    /\ UNCHANGED <<signer, engine, clients, api_key_dict, nonces, lock, api_urls, last>>

\* create_auth_token, lines 1267-1272: up to `async with global_signer_lock`
CallCreateAuthToken(t) ==
    /\ Idle(t)
    /\ \E k \in Keys :
          LET r == Request("create_auth_token", 0, k, -1, None, "at_global") IN
          IF signer
          THEN /\ task' = [task EXCEPT ![t] = r]
               /\ global_signer_lock' = Acquire(global_signer_lock, t)
          ELSE /\ task' = [task EXCEPT ![t] = Fail(r, 500, "Signer not initialized")]
               /\ UNCHANGED global_signer_lock
    /\ started' = started + 1
    /\ UNCHANGED <<signer, engine, clients, api_key_dict, nonces, lock, api_urls,
                   account_locks, locks, last>>

\* create_auth_token under the global lock: the switch, line 1273
CreateAuthTokenSwitch(t) ==
    LET r == task[t] IN
    /\ r.pc = "at_global"
    /\ global_signer_lock.holder = t
    /\ \E err \in EngineErrors :
          IF err
          THEN /\ global_signer_lock' = Release(global_signer_lock)
               /\ task' = [task EXCEPT ![t] = Fail(Engine(r, "SwitchAPIKey", err), 400, "switch")]
          ELSE /\ task' = [task EXCEPT ![t] =
                             [Engine(r, "SwitchAPIKey", err) EXCEPT !.pc = "at_engine"]]
               /\ UNCHANGED global_signer_lock
    /\ engine' = EngineCalled(engine, task'[t])
    /\ UNCHANGED <<signer, clients, api_key_dict, nonces, lock, api_urls,
                   account_locks, locks, started, last>>

\* create_auth_token: CreateAuthToken and the answer, lines 1275-1286
CreateAuthTokenEngine(t) ==
    LET r == task[t] IN
    /\ r.pc = "at_engine"
    /\ global_signer_lock' = Release(global_signer_lock)
    /\ \E err \in EngineErrors :
          task' = [task EXCEPT ![t] =
                     IF err THEN Fail(Engine(r, "CreateAuthToken", err), 400, "engine")
                     ELSE Finish(Engine(r, "CreateAuthToken", err), 200)]
    /\ UNCHANGED <<signer, engine, clients, api_key_dict, nonces, lock, api_urls,
                   account_locks, locks, started, last>>

\* a sign_* handler that enters `async with global_signer_lock` before
\* `async with account_lock`
CallSignGlobalFirst(t, S, P) ==
    /\ Idle(t)
    /\ \E op \in SignOps, s \in S, p \in P :
          LET a == s[1]
              k == s[2]
              ck == get_client_key(k, a)
              u == IF ck \in DOMAIN clients THEN clients[ck].url ELSE None
              r == Request(op, a, k, p, u, "sign_account")
              g == get_account_lock(account_locks, locks, <<a, k>>)
          IN  /\ signer
              /\ global_signer_lock' = Acquire(global_signer_lock, t)
              /\ account_locks' = g.account_locks
              /\ locks' = [g.locks EXCEPT ![g.id] = Acquire(@, t)]
              /\ task' = [task EXCEPT ![t] = [r EXCEPT !.account_lock = g.id]]
    /\ started' = started + 1
    /\ UNCHANGED <<signer, engine, clients, api_key_dict, nonces, lock, api_urls, last>>

\* a sign_* handler, lines 518-532: the signer check, the registration's url,
\* get_account_lock, up to `async with account_lock`
CallSign(t, S, P) ==
    /\ Idle(t)
    /\ \E op \in SignOps, s \in S, p \in P :
          LET a == s[1]
              k == s[2]
              ck == get_client_key(k, a)
              u == IF ck \in DOMAIN clients THEN clients[ck].url ELSE None
              r == Request(op, a, k, p, u, "sign_account")
              g == get_account_lock(account_locks, locks, <<a, k>>)
          IN  IF signer
              THEN /\ account_locks' = g.account_locks
                   /\ locks' = [g.locks EXCEPT ![g.id] = Acquire(@, t)]
                   /\ task' = [task EXCEPT ![t] = [r EXCEPT !.account_lock = g.id]]
              ELSE /\ task' = [task EXCEPT ![t] = Fail(r, 500, "Signer not initialized")]
                   /\ UNCHANGED <<account_locks, locks>>
    /\ started' = started + 1
    /\ UNCHANGED <<signer, engine, clients, api_key_dict, global_signer_lock, nonces, lock,
                   api_urls, last>>

\* a sign handler that goes on to get_next_nonce without holding the slot's lock
SignAccountUnlocked(t) ==
    LET r == task[t] IN
    /\ r.pc = "sign_account"
    /\ lock' = Acquire(lock, t)
    /\ task' = [task EXCEPT ![t].pc = "gn_lock"]
    /\ UNCHANGED <<signer, engine, clients, api_key_dict, global_signer_lock, nonces, api_urls,
                   account_locks, locks, started, last>>

\* the handler holds its account lock and calls get_next_nonce, lines 532-534,
\* which runs up to `async with self.lock`
SignAccountLocked(t) ==
    LET r == task[t] IN
    /\ r.pc = "sign_account"
    /\ locks[r.account_lock].holder = t
    /\ lock' = Acquire(lock, t)
    /\ task' = [task EXCEPT ![t].pc = "gn_lock"]
    /\ UNCHANGED <<signer, engine, clients, api_key_dict, global_signer_lock, nonces, api_urls,
                   account_locks, locks, started, last>>

\* a sign handler that goes on to the sign call whatever the switch answered
SignSwitchUnchecked(t) ==
    LET r == task[t] IN
    /\ r.pc = "sign_global"
    /\ global_signer_lock.holder = t
    /\ \E err \in EngineErrors :
          task' = [task EXCEPT ![t] =
                     [Engine(r, "SwitchAPIKey", err) EXCEPT !.pc = "sign_engine"]]
    /\ engine' = EngineCalled(engine, task'[t])
    /\ UNCHANGED <<signer, clients, api_key_dict, global_signer_lock, nonces, lock,
                   api_urls, account_locks, locks, started, last>>

\* under the global lock: _switch_api_key_internal, line 552
SignSwitch(t) ==
    LET r == task[t] IN
    /\ r.pc = "sign_global"
    /\ global_signer_lock.holder = t
    /\ \E err \in EngineErrors :
          IF err
          THEN /\ global_signer_lock' = Release(global_signer_lock)
               /\ locks' = [locks EXCEPT ![r.account_lock] = Release(@)]
               /\ task' = [task EXCEPT ![t] = Fail(Engine(r, "SwitchAPIKey", err), 400, "switch")]
          ELSE /\ task' = [task EXCEPT ![t] =
                             [Engine(r, "SwitchAPIKey", err) EXCEPT !.pc = "sign_engine"]]
               /\ UNCHANGED <<global_signer_lock, locks>>
    /\ engine' = EngineCalled(engine, task'[t])
    /\ UNCHANGED <<signer, clients, api_key_dict, nonces, lock, api_urls,
                   account_locks, started, last>>

\* a sign handler that calls acknowledge_failure when the engine call fails
SignEngineRollback(t) ==
    LET r == task[t] IN
    /\ r.pc = "sign_engine"
    /\ \E err \in EngineErrors :
          IF ~err /\ r.op \in CoSignOps
          THEN /\ task' = [task EXCEPT ![t] =
                             [Engine(r, "Sign", err) EXCEPT !.pc = "sign_cosign"]]
               /\ UNCHANGED <<global_signer_lock, locks, nonces>>
          ELSE /\ global_signer_lock' = Release(global_signer_lock)
               /\ locks' = [locks EXCEPT ![r.account_lock] = Release(@)]
               /\ nonces' = IF err
                            THEN acknowledge_failure_result(nonces, r.account_index,
                                                            r.api_key_index)
                            ELSE nonces
               /\ task' = [task EXCEPT ![t] =
                             IF err THEN Fail(Engine(r, "Sign", err), 400, "engine")
                             ELSE Finish(Engine(r, "Sign", err), 200)]
    /\ UNCHANGED <<signer, engine, clients, api_key_dict, lock, api_urls,
                   account_locks, started, last>>


\* a sign handler that drops the slot's lock from account_locks when it is done
SignEngineDropLock(t) ==
    LET r == task[t]
        s == <<r.account_index, r.api_key_index>>
    IN
    /\ r.pc = "sign_engine"
    /\ \E err \in EngineErrors :
          IF ~err /\ r.op \in CoSignOps
          THEN /\ task' = [task EXCEPT ![t] =
                             [Engine(r, "Sign", err) EXCEPT !.pc = "sign_cosign"]]
               /\ UNCHANGED <<global_signer_lock, locks, account_locks>>
          ELSE /\ global_signer_lock' = Release(global_signer_lock)
               /\ locks' = [locks EXCEPT ![r.account_lock] = Release(@)]
               /\ account_locks' = [x \in DOMAIN account_locks \ {s} |-> account_locks[x]]
               /\ task' = [task EXCEPT ![t] =
                             IF err THEN Fail(Engine(r, "Sign", err), 400, "engine")
                             ELSE Finish(Engine(r, "Sign", err), 200)]
    /\ UNCHANGED <<signer, engine, clients, api_key_dict, nonces, lock, api_urls,
                   started, last>>


\* a sign handler that answers the engine's error as an internal error
SignEngineInternalError(t) ==
    LET r == task[t] IN
    /\ r.pc = "sign_engine"
    /\ \E err \in EngineErrors :
          IF ~err /\ r.op \in CoSignOps
          THEN /\ task' = [task EXCEPT ![t] =
                             [Engine(r, "Sign", err) EXCEPT !.pc = "sign_cosign"]]
               /\ UNCHANGED <<global_signer_lock, locks>>
          ELSE /\ global_signer_lock' = Release(global_signer_lock)
               /\ locks' = [locks EXCEPT ![r.account_lock] = Release(@)]
               /\ task' = [task EXCEPT ![t] =
                             IF err THEN Fail(Engine(r, "Sign", err), 500, "exception")
                             ELSE Finish(Engine(r, "Sign", err), 200)]
    /\ UNCHANGED <<signer, engine, clients, api_key_dict, nonces, lock, api_urls,
                   account_locks, started, last>>

\* the engine's Sign* call and the answer, lines 569-591; the co-signing
\* endpoints go on under the global lock
SignEngine(t) ==
    LET r == task[t] IN
    /\ r.pc = "sign_engine"
    /\ \E err \in EngineErrors :
          IF ~err /\ r.op \in CoSignOps
          THEN /\ task' = [task EXCEPT ![t] =
                             [Engine(r, "Sign", err) EXCEPT !.pc = "sign_cosign"]]
               /\ UNCHANGED <<global_signer_lock, locks>>
          ELSE /\ global_signer_lock' = Release(global_signer_lock)
               /\ locks' = [locks EXCEPT ![r.account_lock] = Release(@)]
               /\ task' = [task EXCEPT ![t] =
                             IF err THEN Fail(Engine(r, "Sign", err), 400, "engine")
                             ELSE Finish(Engine(r, "Sign", err), 200)]
    /\ UNCHANGED <<signer, engine, clients, api_key_dict, nonces, lock, api_urls,
                   account_locks, started, last>>

\* sign_transfer lines 937-951 (sign_change_api_key 494-508): the payload is
\* parsed and signed with the caller's key, which can raise
SignCoSign(t) ==
    LET r == task[t] IN
    /\ r.pc = "sign_cosign"
    /\ global_signer_lock' = Release(global_signer_lock)
    /\ locks' = [locks EXCEPT ![r.account_lock] = Release(@)]
    /\ \E exc \in BOOLEAN :
          task' = [task EXCEPT ![t] = IF exc THEN Fail(r, 500, "exception") ELSE Finish(r, 200)]
    /\ UNCHANGED <<signer, engine, clients, api_key_dict, nonces, lock, api_urls,
                   account_locks, started, last>>

\* ------------------------------------------------------------ specification
\* the handlers of the service once called
GatewayStep(t) ==
    \/ CreateClientLocked(t)
    \/ CheckClientLocked(t)
    \/ SwitchApiKeyLocked(t)
    \/ CreateAuthTokenSwitch(t)
    \/ CreateAuthTokenEngine(t)
    \/ SignAccountLocked(t)
    \/ SignSwitch(t)
    \/ SignEngine(t)
    \/ SignCoSign(t)

\* The service: clients call the handlers.  Only create_client's
\* initialize_account and the sign handlers' get_next_nonce reach the nonce
\* manager, and get_next_nonce never has to fetch: the slot of a registered
\* client was seeded by create_client before its url can be read.
NextGateway ==
    \E t \in Tasks :
        \/ /\ started < MaxRequests
           /\ \/ CallCreateClient(t, Slots)
              \/ CallCheckClient(t, Slots)
              \/ CallSwitchApiKey(t)
              \/ CallCreateAuthToken(t)
              \/ CallSign(t, Slots, {-1})
        \/ GatewayStep(t)
        \/ GetNextNonceLocked(t)
        \/ InitializeAccountLocked(t)
        \/ InitializeAccountFetched(t)

SpecGateway == Init /\ [][NextGateway]_vars


\* the next step of the request task t serves: the handler's own code, or the
\* code of the nonce manager it has called
Progress(t) ==
    \/ GatewayStep(t)
    \/ GetNextNonceLocked(t)
    \/ InitializeAccountLocked(t)
    \/ InitializeAccountFetched(t)

\* The service on a fair event loop: a coroutine that can run is run, every
\* engine call returns and every fetch answers or times out (5 s, line 31 of
\* nonce_manager.py)
SpecGatewayFair == SpecGateway /\ \A t \in Tasks : WF_vars(Progress(t))

\* The nonce manager under callers of its interface
NextNonce ==
    \E t \in Tasks :
        \/ /\ started < MaxCalls
           /\ \/ CallGetNextNonce(t, {Slot1}, ProvidedNonces, Urls)
              \/ CallGetNextNonce(t, Slots \ {Slot1}, {-1}, Urls)
              \/ CallAcknowledgeFailure(t, {Slot1})
        \/ GetNextNonceLocked(t)
        \/ GetNextNonceFetched(t)
        \/ AcknowledgeFailureLocked(t)

SpecNonce == Init /\ [][NextNonce]_vars

\* The nonce manager under callers that take nonces and refresh them from the
\* endpoint
NextRefresh ==
    \E t \in Tasks :
        \/ /\ started < MaxCalls
           /\ \/ CallGetNextNonce(t, {Slot1}, {-1}, Urls \cup {None})
              \/ CallHardRefreshNonce(t, {Slot1})
        \/ GetNextNonceLocked(t)
        \/ GetNextNonceFetched(t)
        \/ HardRefreshNonceLocked(t)
        \/ HardRefreshNonceFetched(t)

SpecRefresh == Init /\ [][NextRefresh]_vars

\* Concurrent first calls: every task makes one call, get_next_nonce with no
\* supplied nonce or get_account_lock
NextConcurrent ==
    \E t \in Tasks :
        \/ /\ task[t].pc = "idle"
           /\ \/ CallGetNextNonce(t, Slots, {-1}, Urls \cup {None})
              \/ CallGetAccountLock(t, Slots)
        \/ GetNextNonceLocked(t)
        \/ GetNextNonceFetched(t)

SpecConcurrent == Init /\ [][NextConcurrent]_vars

\* One slot from its first use: initialize_account, get_next_nonce with no
\* supplied nonce (with or without an endpoint), acknowledge_failure and get_current_nonce, in any order and
\* from any task
NextScenario ==
    \E t \in Tasks :
        \/ /\ started < MaxScenarioCalls
           /\ \/ CallInitializeAccount(t, {Slot1})
              \/ CallGetNextNonce(t, {Slot1}, {-1}, Urls \cup {None})
              \/ CallAcknowledgeFailure(t, {Slot1})
              \/ CallGetCurrentNonce(t, {Slot1})
        \/ InitializeAccountLocked(t)
        \/ InitializeAccountFetched(t)
        \/ GetNextNonceLocked(t)
        \/ GetNextNonceFetched(t)
        \/ AcknowledgeFailureLocked(t)
        \/ GetCurrentNonceLocked(t)

SpecScenario == Init /\ [][NextScenario]_vars


\* The service used for several accounts: clients are created and requests
\* are signed for accounts that use the same api key index
NextSessions ==
    \E t \in Tasks :
        \/ /\ started < MaxSessionRequests
           /\ \/ CallCreateClient(t, Slots)
              \/ CallSign(t, Slots, {-1})
        \/ CreateClientLocked(t)
        \/ InitializeAccountLocked(t)
        \/ InitializeAccountFetched(t)
        \/ SignAccountLocked(t)
        \/ GetNextNonceLocked(t)
        \/ SignSwitch(t)
        \/ SignEngine(t)
        \/ SignCoSign(t)

SpecSessions == Init /\ [][NextSessions]_vars


\* The nonce manager under a caller that registers two key slots of one
\* account, each with its own endpoint, and refreshes the first slot
NextEndpoints ==
    \E t \in Tasks :
        \/ /\ started < MaxCalls
           /\ \/ \E s \in EndpointSlots : CallInitializeAccountAt(t, {s}, {EndpointOf(s)})
              \/ CallHardRefreshNonce(t, {Slot1})
        \/ InitializeAccountLocked(t)
        \/ InitializeAccountFetched(t)
        \/ HardRefreshNonceLocked(t)
        \/ HardRefreshNonceFetched(t)

SpecEndpoints == Init /\ [][NextEndpoints]_vars


\* One slot registered again and again, by create_client and by direct calls
\* of initialize_account, with either endpoint
NextReregister ==
    \E t \in Tasks :
        \/ /\ started < MaxCalls
           /\ \/ CallCreateClientAt(t, {Slot1}, EndpointUrls)
              \/ CallInitializeAccountAt(t, {Slot1}, EndpointUrls)
        \/ CreateClientLocked(t)
        \/ InitializeAccountLocked(t)
        \/ InitializeAccountFetched(t)

SpecReregister == Init /\ [][NextReregister]_vars


\* The nonce manager under callers that use two key slots of one account and
\* roll back and refresh the first
NextPartition ==
    \E t \in Tasks :
        \/ /\ started < MaxCalls
           /\ \/ CallInitializeAccount(t, EndpointSlots)
              \/ CallGetNextNonce(t, EndpointSlots, {-1}, {None})
              \/ CallAcknowledgeFailure(t, {Slot1})
              \/ CallHardRefreshNonce(t, {Slot1})
        \/ InitializeAccountLocked(t)
        \/ InitializeAccountFetched(t)
        \/ GetNextNonceLocked(t)
        \/ AcknowledgeFailureLocked(t)
        \/ HardRefreshNonceLocked(t)
        \/ HardRefreshNonceFetched(t)

SpecPartition == Init /\ [][NextPartition]_vars

\* ------------------------------------------------------------------ claims
SlotOf(t) == <<task[t].account_index, task[t].api_key_index>>

\* task t is between the engine's session switch and the release of the
\* global lock: a sign handler or create_auth_token after the switch, or
\* create_client after CreateClient, while it initialises the nonce
InCriticalSection(t) ==
    \/ task[t].pc \in {"sign_engine", "sign_cosign", "at_engine"}
    \/ task[t].op = "create_client" /\ task[t].pc \in {"ia_lock", "ia_fetch"}

HoldsAccountLock(ls, t) == \E i \in 1..Len(ls) : ls[i].holder = t
WaitsAccountLock(ls, t) == \E i \in 1..Len(ls) : Waiting(ls[i], t)

\* C1: at most one request is inside the "switch active session + invoke
\* engine operation" critical section
C1_OneInCriticalSection ==
    \A t1, t2 \in Tasks : t1 # t2 => ~(InCriticalSection(t1) /\ InCriticalSection(t2))

\* a sign request is past the switch while another request waits for the
\* global lock
C1_Witness ==
    \E t1, t2 \in Tasks :
        /\ task[t1].pc = "sign_engine"
        /\ task[t2].op \in SignOps
        /\ task[t2].pc = "sign_global"
        /\ Waiting(global_signer_lock, t2)

\* C3: a task never waits for an account lock while it holds the global
\* lock, and a task that gets an account lock does not hold the global lock
\* at that moment: the account lock is always taken first
C3_AccountLockFirst ==
    /\ [](\A t \in Tasks : ~(global_signer_lock.holder = t /\ WaitsAccountLock(locks, t)))
    /\ [][\A t \in Tasks :
            (HoldsAccountLock(locks', t) /\ ~HoldsAccountLock(locks, t))
                => (global_signer_lock.holder # t /\ global_signer_lock'.holder # t)]_vars

\* a sign request holds its account lock and the global lock
C3_Witness ==
    \E t \in Tasks :
        /\ task[t].pc = "sign_engine"
        /\ global_signer_lock.holder = t
        /\ HoldsAccountLock(locks, t)

HoldsNoLock(t) ==
    /\ lock.holder # t /\ ~Waiting(lock, t)
    /\ global_signer_lock.holder # t /\ ~Waiting(global_signer_lock, t)
    /\ ~HoldsAccountLock(locks, t) /\ ~WaitsAccountLock(locks, t)

\* C4: a finished request holds no account lock, not the global lock and not
\* the nonce manager's lock, whatever way it ended
C4_FinishedHoldsNoLock ==
    \A t \in Tasks : task[t].pc \in {"idle", "done"} => HoldsNoLock(t)

\* one sign request ended by an exception in the co-signing, another by a
\* failed session switch
C4_Witness ==
    \E t1, t2 \in Tasks :
        /\ task[t1].pc = "done" /\ task[t1].op \in CoSignOps
        /\ task[t1].status = 500 /\ task[t1].detail = "exception"
        /\ task[t2].pc = "done" /\ task[t2].op \in SignOps
        /\ task[t2].status = 400 /\ task[t2].detail = "switch"

\* task x is suspended in a network fetch
Fetching(x) == task[x].pc \in {"gn_fetch", "ia_fetch", "hr_fetch"}

\* task y waits for a lock that task x holds
BlockedBy(y, x) ==
    \/ lock.holder = x /\ Waiting(lock, y)
    \/ global_signer_lock.holder = x /\ Waiting(global_signer_lock, y)
    \/ \E i \in 1..Len(locks) : locks[i].holder = x /\ Waiting(locks[i], y)

\* C5: a request is never kept waiting by the seeding fetch or the session
\* creation of a request for another slot
C5_NoDelayByOtherSlotsFetch ==
    \A x, y \in Tasks :
        (x # y /\ task[y].op \in SignOps /\ SlotOf(x) # SlotOf(y))
            => ~(Fetching(x) /\ BlockedBy(y, x))

\* C6: every reference to the lock of a slot is the one lock object of that
\* slot, and no second lock object was ever made for a slot
C6_OneLockPerSlot ==
    /\ Len(locks) = Cardinality(DOMAIN account_locks)
    /\ \A t \in Tasks :
          /\ task[t].account_lock # 0 => account_locks[SlotOf(t)] = task[t].account_lock
          /\ (task[t].op = "get_account_lock" /\ task[t].pc = "done")
                => task[t].ret = <<account_locks[SlotOf(t)]>>

\* two tasks made the first calls for one slot and got the same lock
C6_Witness ==
    \E t1, t2 \in Tasks :
        /\ t1 # t2
        /\ task[t1].op = "get_account_lock" /\ task[t1].pc = "done"
        /\ task[t2].op = "get_account_lock" /\ task[t2].pc = "done"
        /\ SlotOf(t1) = SlotOf(t2)
        /\ task[t1].ret = task[t2].ret

\* the tasks whose get_next_nonce call on slot s returned
Returned(s) ==
    {t \in Tasks : task[t].pc = "done" /\ task[t].op = "get_next_nonce" /\ SlotOf(t) = s}

\* C2: on a slot whose counter started at 0, the concurrent get_next_nonce
\* calls with no supplied nonce that have returned got 1..N, each once
C2_ConcurrentNoncesDistinct ==
    \A s \in Slots :
        last[s].seed = <<0>> =>
            /\ {task[t].ret[1] : t \in Returned(s)} = 1..Cardinality(Returned(s))
            /\ \A t1, t2 \in Returned(s) : task[t1].ret = task[t2].ret => t1 = t2

\* all tasks called for one slot, the first one fetched the seed, all returned
C2_Witness ==
    \E s \in Slots :
        /\ last[s].seed = <<0>>
        /\ s[1] \in DOMAIN api_urls
        /\ Returned(s) = Tasks

\* C7 as claimed: get_next_nonce and then acknowledge_failure on a slot bring
\* get_current_nonce back to what it gave before the get_next_nonce call
C7_RoundTripAlways ==
    \A s \in Slots :
        (last[s].op = "acknowledge_failure" /\ last[s].prior.op = "get_next_nonce")
            => CurrentNonce(nonces, s[1], s[2]) = last[s].prior.before

\* C7 amended: on a slot that had its counter, get_next_nonce with no
\* supplied nonce and then acknowledge_failure bring get_current_nonce back
C7_RoundTripOfAutoIncrement ==
    \A s \in Slots :
        (/\ last[s].op = "acknowledge_failure"
         /\ last[s].prior.op = "get_next_nonce"
         /\ last[s].prior.provided = -1
         /\ ~last[s].prior.created)
            => /\ CurrentNonce(nonces, s[1], s[2]) = last[s].prior.before
               /\ last[s].after = last[s].prior.before

\* a rollback followed an unsupplied get_next_nonce on a slot with a counter
C7_Witness ==
    \E s \in Slots :
        /\ last[s].op = "acknowledge_failure"
        /\ last[s].prior.op = "get_next_nonce"
        /\ last[s].prior.provided = -1
        /\ ~last[s].prior.created
        /\ last[s].prior.ret = last[s].prior.before + 1

\* the call recorded in c supplied a nonce above the cached counter
SuppliedAbove(c) == c.op = "get_next_nonce" /\ c.provided >= 0 /\ c.provided > c.cached

\* C8: a supplied nonce above the cached counter is returned, becomes the
\* cached counter, and the next unsupplied call returns one more
C8_SuppliedAboveCache ==
    \A s \in Slots :
        /\ SuppliedAbove(last[s]) =>
              /\ last[s].ret = last[s].provided
              /\ last[s].after = last[s].provided
              /\ CurrentNonce(nonces, s[1], s[2]) = last[s].provided
        /\ (/\ SuppliedAbove(last[s].prior)
            /\ last[s].op = "get_next_nonce"
            /\ last[s].provided = -1)
              => last[s].ret = last[s].prior.provided + 1

\* an unsupplied call followed a call whose supplied nonce was above the cache
C8_Witness ==
    \E s \in Slots :
        /\ SuppliedAbove(last[s].prior)
        /\ last[s].op = "get_next_nonce"
        /\ last[s].provided = -1

\* the call recorded in c supplied a nonce below the cached counter
SuppliedBelow(c) == c.op = "get_next_nonce" /\ c.provided >= 0 /\ c.provided < c.cached

\* C9: a supplied nonce below the cached counter is returned as it is and
\* the cached counter stays
C9_SuppliedBelowCache ==
    \A s \in Slots :
        SuppliedBelow(last[s]) =>
            /\ last[s].ret = last[s].provided
            /\ last[s].after = last[s].cached
            /\ CurrentNonce(nonces, s[1], s[2]) = last[s].cached

\* a call supplied a nonce below the counter of a slot that had its counter
C9_Witness ==
    \E s \in Slots, t \in Tasks :
        /\ SuppliedBelow(last[s])
        /\ ~last[s].created
        /\ task[t].pc = "done" /\ task[t].status = 200
        /\ task[t].op = "get_next_nonce" /\ SlotOf(t) = s
        /\ task[t].ret = <<last[s].provided>>

\* the call recorded in c took no supplied nonce, after an earlier such call
\* with no rollback or refresh between them
NextAuto(c) == c.op = "get_next_nonce" /\ c.provided = -1 /\ c.prior.auto # <<>>

\* C10 as claimed: without rollback or refresh, an unsupplied call returns
\* one more than the unsupplied call before it, whatever came between them
C10_AutoIncrementsByOneAlways ==
    \A s \in Slots : NextAuto(last[s]) => last[s].ret = last[s].prior.auto[1] + 1

\* C10 amended: it returns one more than the unsupplied call before it
\* unless a supplied nonce above the cached counter came between them, and
\* then it returns more than that
C10_AutoIncrementsByOne ==
    \A s \in Slots :
        NextAuto(last[s]) =>
            /\ ~last[s].prior.bumped => last[s].ret = last[s].prior.auto[1] + 1
            /\ last[s].prior.bumped => last[s].ret > last[s].prior.auto[1] + 1

\* two unsupplied calls with a call with a supplied nonce between them that
\* did not raise the counter
C10_Witness ==
    \E s \in Slots :
        /\ NextAuto(last[s])
        /\ last[s].prior.op = "get_next_nonce"
        /\ last[s].prior.provided >= 0
        /\ ~last[s].prior.bumped

\* the sign request of task t ends with the error of the session switch or of
\* the engine's sign call
SignFails(t) ==
    /\ task[t].pc \in {"sign_global", "sign_engine"}
    /\ task'[t].pc = "done"
    /\ task'[t].status = 400

\* C11: a sign request that fails at the session switch or at the sign call
\* leaves the slot's counter at the nonce that request was given, and a seeded
\* counter only ever moves when a request takes the number that follows it
C11_NoRollbackOnEngineFailure ==
    /\ [][\A t \in Tasks :
            SignFails(t) =>
                /\ nonces' = nonces
                /\ CurrentNonce(nonces', task[t].account_index, task[t].api_key_index)
                      = task[t].ret[1]]_vars
    /\ [][\A s \in Slots :
            (/\ HasNonce(nonces, s[1], s[2])
             /\ CurrentNonce(nonces', s[1], s[2]) # CurrentNonce(nonces, s[1], s[2]))
                => \E t \in Tasks :
                      /\ SlotOf(t) = s
                      /\ task[t].pc = "gn_lock"
                      /\ task'[t].ret = <<CurrentNonce(nonces, s[1], s[2]) + 1>>
                      /\ CurrentNonce(nonces', s[1], s[2]) = task'[t].ret[1]]_vars

\* a sign request failed at the engine with nonce 1 and the next request for
\* the slot was given nonce 2
C11_Witness ==
    \E t1, t2 \in Tasks :
        /\ task[t1].pc = "done" /\ task[t1].op \in SignOps
        /\ task[t1].status = 400 /\ task[t1].detail = "engine"
        /\ SlotOf(t2) = SlotOf(t1)
        /\ task[t2].op \in SignOps /\ task[t2].pc = "sign_global"
        /\ last[SlotOf(t1)].prior.ret = 1
        /\ task[t2].ret = <<2>>

\* the engine functions that work on the active session after the switch
EngineOperations == {"Sign", "CreateAuthToken"}

\* the i-th engine call of task t's request was a session switch that
\* answered an error string
SwitchFailed(t, i) ==
    /\ i \in 1..Len(task[t].calls)
    /\ task[t].calls[i].f = "SwitchAPIKey"
    /\ task[t].calls[i].err

\* C12: a request whose session switch answered an error string has ended
\* with an error and made no engine call after the switch
C12_SwitchErrorAborts ==
    \A t \in Tasks : \A i \in 1..Len(task[t].calls) :
        SwitchFailed(t, i) =>
            /\ task[t].pc = "done"
            /\ task[t].status = 400
            /\ task[t].ret = <<>>
            /\ i = Len(task[t].calls)
            /\ \A j \in 1..Len(task[t].calls) : task[t].calls[j].f \notin EngineOperations

\* the switch failed in a sign request and in a create_auth_token request
C12_Witness ==
    \E t1, t2 \in Tasks :
        /\ task[t1].op \in SignOps /\ SwitchFailed(t1, 1)
        /\ task[t2].op = "create_auth_token" /\ SwitchFailed(t2, 1)

\* task t holds a lock or waits for one
TouchesLock(t) == ~HoldsNoLock(t)

\* C13: without the engine no request ever holds or requests a
\* lock, and the nonce state stays as it was
C13_NoLockWithoutEngine ==
    ~signer => /\ \A t \in Tasks : ~TouchesLock(t)
               /\ nonces = <<>>

\* the handlers that take the global lock before they look at the signer:
\* check_client does not look at all, switch_api_key looks in
\* _switch_api_key_internal
ChecksUnderGlobalLock == {"check_client", "switch_api_key"}

\* what does hold without the engine: every request ends with status 500,
\* makes no engine call and leaves the nonce state as it was; only
\* check_client and switch_api_key take a lock, the global lock, and the
\* others fail before they ask for any lock
FailsWithoutEngine ==
    ~signer =>
        /\ nonces = <<>> /\ api_urls = <<>> /\ account_locks = <<>> /\ locks = <<>>
        /\ lock = FreeLock
        /\ \A s \in Slots : last[s].op = "none"
        /\ \A t \in Tasks :
              /\ task[t].calls = <<>>
              /\ task[t].pc = "done" => task[t].status = 500
              /\ TouchesLock(t) => task[t].op \in ChecksUnderGlobalLock
              /\ task[t].op \notin ChecksUnderGlobalLock => task[t].pc \in {"idle", "done"}

\* the engine functions that read or change the engine's active session
SessionCalls == {"CreateClient", "CheckClient", "SwitchAPIKey", "Sign", "CreateAuthToken"}

\* task t makes an engine call in this step
CallsEngine(t) ==
    /\ Len(task'[t].calls) = Len(task[t].calls) + 1
    /\ task'[t].calls[Len(task'[t].calls)].f \in SessionCalls

\* C14: a task makes an engine call on the active session only while it
\* holds the global lock
C14_EngineCallsUnderGlobalLock ==
    [][\A t \in Tasks : CallsEngine(t) => global_signer_lock.holder = t]_vars

\* a request has called CheckClient while another task holds the global lock
\* for its sign call
C14_Witness ==
    \E t1, t2 \in Tasks :
        /\ task[t1].pc = "done" /\ Len(task[t1].calls) = 1
        /\ task[t1].calls[1].f = "CheckClient"
        /\ task[t2].pc = "sign_engine"
        /\ global_signer_lock.holder = t2

\* task t is in the nonce manager: it resolves or seeds a nonce, waits for
\* the nonce manager's lock or is suspended in the network fetch
InNonceManager(t) ==
    \/ lock.holder = t
    \/ Waiting(lock, t)
    \/ task[t].pc \in {"gn_lock", "gn_fetch", "ia_lock", "ia_fetch", "hr_lock", "hr_fetch"}

\* C15: a task that holds the global lock is not in the nonce manager, not
\* in a network fetch and not waiting for another lock
C15_OnlyEngineUnderGlobalLock ==
    \A t \in Tasks :
        global_signer_lock.holder = t =>
            /\ ~InNonceManager(t)
            /\ ~Fetching(t)
            /\ ~WaitsAccountLock(locks, t)

\* task t is in the critical section of its slot: under `async with
\* account_lock`, from the nonce resolution to the end of switch+sign
InSlotSection(t) ==
    /\ task[t].op \in SignOps
    /\ task[t].pc \in {"gn_lock", "gn_fetch", "sign_global", "sign_engine", "sign_cosign"}

\* the place of task t in the queue of lock l, 0 when it does not wait
Place(l, t) == IF Waiting(l, t) THEN CHOOSE i \in 1..Len(l.waiters) : l.waiters[i] = t ELSE 0

RunFromZero(c, n) == c.seed = <<0>> /\ c.run = <<n>>

\* a get_current_nonce call of task t returns in this step
ReadsCurrent(t) == task[t].pc = "gc_lock" /\ task'[t].pc = "done"

\* C17: after initialize_account made the slot with its counter at 0, the
\* first unsupplied get_next_nonce returns 1 and the second 2, and after one
\* acknowledge_failure get_current_nonce returns 1
C17_InitNextNextRollback ==
    /\ [](RunFromZero(last[Slot1], 1) => last[Slot1].ret = 1)
    /\ [](RunFromZero(last[Slot1], 2) => last[Slot1].ret = 2)
    /\ []((last[Slot1].op = "acknowledge_failure" /\ RunFromZero(last[Slot1].prior, 2))
            => CurrentNonce(nonces, 1, 1) = 1)
    /\ [][\A t \in Tasks :
            (/\ ReadsCurrent(t)
             /\ last[Slot1].op = "acknowledge_failure"
             /\ RunFromZero(last[Slot1].prior, 2))
                => task'[t].ret = <<1>>]_vars

\* the scenario was run to its end: get_current_nonce returned after the
\* rollback that followed the second get_next_nonce
C17_Witness ==
    \E t \in Tasks :
        /\ task[t].op = "get_current_nonce" /\ task[t].pc = "done"
        /\ task[t].ret = <<1>>
        /\ last[Slot1].op = "acknowledge_failure"
        /\ RunFromZero(last[Slot1].prior, 2)
        /\ last[Slot1].prior.ret = 2

\* the call recorded in c was a hard_refresh_nonce whose fetch answered a nonce
Refreshed(c) == c.op = "hard_refresh_nonce" /\ c.fetch >= 0

\* C18: a hard_refresh_nonce whose endpoint answers n sets the counter to
\* n - 1 whatever it was, and the next unsupplied get_next_nonce returns n
C18_HardRefreshSetsCounter ==
    \A s \in Slots :
        /\ Refreshed(last[s]) =>
              /\ last[s].after = last[s].fetch - 1
              /\ CurrentNonce(nonces, s[1], s[2]) = last[s].fetch - 1
        /\ (/\ Refreshed(last[s].prior)
            /\ last[s].op = "get_next_nonce"
            /\ last[s].provided = -1)
              => last[s].ret = last[s].prior.fetch

\* an unsupplied get_next_nonce followed a refresh that moved the counter
C18_Witness ==
    \E s \in Slots :
        /\ Refreshed(last[s].prior)
        /\ last[s].prior.before # last[s].prior.after
        /\ last[s].op = "get_next_nonce"
        /\ last[s].provided = -1

\* the call recorded in c made the slot's entry from a fetch that answered
Seeded(c) == c.created /\ c.fetch >= 0

\* the call recorded in c is a get_next_nonce with no supplied nonce
Unsupplied(c) == c.op = "get_next_nonce" /\ c.provided = -1

\* C19: a first use whose fetch answers n seeds the counter to n - 1, and the
\* first unsupplied get_next_nonce, the seeding call itself or the call after
\* the seeding initialize_account, returns n
C19_SeedFromEndpoint ==
    \A s \in Slots :
        /\ (Seeded(last[s]) /\ last[s].op \in {"initialize_account", "get_next_nonce"})
              => last[s].cached = last[s].fetch - 1
        /\ (Seeded(last[s]) /\ Unsupplied(last[s])) => last[s].ret = last[s].fetch
        /\ (/\ Unsupplied(last[s])
            /\ last[s].prior.op = "initialize_account"
            /\ Seeded(last[s].prior))
              => last[s].ret = last[s].prior.fetch

\* initialize_account seeded the slot from the endpoint's answer 1 and an
\* unsupplied get_next_nonce followed
C19_Witness ==
    \E s \in Slots :
        /\ Unsupplied(last[s])
        /\ last[s].prior.op = "initialize_account"
        /\ Seeded(last[s].prior)
        /\ last[s].prior.fetch = 1

\* the call recorded in c made the slot's entry after its fetch had failed
SeededByFallback(c) == c.created /\ c.fetch = FetchFailed

\* C20: a first use whose fetch fails seeds the counter to 0 and does not
\* fail, and the first unsupplied get_next_nonce returns 1
C20_SeedFallback ==
    /\ \A s \in Slots :
          /\ SeededByFallback(last[s]) => last[s].cached = 0
          /\ (SeededByFallback(last[s]) /\ Unsupplied(last[s])) => last[s].ret = 1
          /\ (/\ Unsupplied(last[s])
              /\ last[s].prior.op = "initialize_account"
              /\ SeededByFallback(last[s].prior))
                => last[s].ret = 1
    /\ \A t \in Tasks :
          (task[t].pc = "done" /\ task[t].op \in {"initialize_account", "get_next_nonce"})
              => task[t].status = 200

\* a get_next_nonce whose seeding fetch failed has returned 1 to its caller
C20_Witness ==
    \E s \in Slots, t \in Tasks :
        /\ SeededByFallback(last[s]) /\ Unsupplied(last[s])
        /\ task[t].pc = "done" /\ task[t].op = "get_next_nonce" /\ SlotOf(t) = s
        /\ task[t].status = 200 /\ task[t].ret = <<1>>

\* the slots that have a counter in the cache n
NonceSlots(n) == {s \in Slots : HasNonce(n, s[1], s[2])}

\* C21: no step removes a slot from account_locks or from nonces, a slot's
\* lock stays the lock object it was, and no lock object is lost
C21_MapsOnlyGrow ==
    [][/\ DOMAIN account_locks \subseteq DOMAIN account_locks'
       /\ \A s \in DOMAIN account_locks : account_locks'[s] = account_locks[s]
       /\ Len(locks) <= Len(locks')
       /\ NonceSlots(nonces) \subseteq NonceSlots(nonces')
       /\ DOMAIN nonces \subseteq DOMAIN nonces']_vars

\* two slots have their lock and their counter, and requests for both are done
C21_Witness ==
    /\ Cardinality(DOMAIN account_locks) = 2
    /\ Cardinality(NonceSlots(nonces)) = 2
    /\ \A t \in Tasks : task[t].pc = "done"

\* the administrative operations
AdminOps == {"check_client", "switch_api_key", "create_auth_token"}

\* task t takes a step of an administrative request
AdminStep(t) == task'[t] # task[t] /\ task'[t].op \in AdminOps

\* C22: an administrative request holds and awaits no account lock and not
\* the nonce manager's lock, and its steps leave the counters, the endpoints,
\* the account locks and the nonce manager's lock as they were
C22_AdminBypassesNonceManager ==
    /\ [](\A t \in Tasks :
            task[t].op \in AdminOps =>
                /\ ~HoldsAccountLock(locks, t) /\ ~WaitsAccountLock(locks, t)
                /\ lock.holder # t /\ ~Waiting(lock, t))
    /\ [][\A t \in Tasks :
            AdminStep(t) => UNCHANGED <<nonces, api_urls, account_locks, locks, lock, last>>]_vars

\* an administrative request holds the global lock while a slot has its
\* counter and its lock
C22_Witness ==
    \E t \in Tasks :
        /\ task[t].op \in AdminOps
        /\ global_signer_lock.holder = t
        /\ NonceSlots(nonces) # {}
        /\ DOMAIN account_locks # {}

\* task t serves a request that has not finished
Started(t) == task[t].pc \notin {"idle", "done"}

\* C23: every started request finishes, so no task waits for ever for a lock
C23_EveryRequestFinishes ==
    \A t \in Tasks : Started(t) ~> task[t].pc = "done"

\* a sign request holds its account lock and waits for the nonce manager's
\* lock, which a create_client holds together with the global lock
C23_Witness ==
    \E t1, t2 \in Tasks :
        /\ task[t1].op = "create_client" /\ task[t1].pc = "ia_fetch"
        /\ global_signer_lock.holder = t1 /\ lock.holder = t1
        /\ task[t2].op \in SignOps /\ HoldsAccountLock(locks, t2)
        /\ Waiting(lock, t2)

\* the i-th engine call of task t's request was a sign call that answered an
\* error string
SignFailed(t, i) ==
    /\ i \in 1..Len(task[t].calls)
    /\ task[t].calls[i].f = "Sign"
    /\ task[t].calls[i].err

\* C24: a sign request whose sign call answered an error string has ended
\* with status 400, its detail is the engine's error string as the engine
\* gave it (detail "engine"; the switch's error is reported behind a prefix,
\* detail "switch"), and it returns no payload
C24_SignErrorIsClientError ==
    \A t \in Tasks : \A i \in 1..Len(task[t].calls) :
        SignFailed(t, i) =>
            /\ task[t].pc = "done"
            /\ task[t].status = 400
            /\ task[t].detail = "engine"
            /\ task[t].ret = <<>>
            /\ i = Len(task[t].calls)

\* the sign call failed in a sign_create_order and in a sign_transfer request
C24_Witness ==
    \E t1, t2 \in Tasks :
        /\ task[t1].op = "sign_create_order" /\ SignFailed(t1, 2)
        /\ task[t2].op = "sign_transfer" /\ SignFailed(t2, 2)

\* task t's hard_refresh_nonce returns in this step without a refreshed
\* counter: the account has no endpoint, or the fetch failed
RefreshFails(t) ==
    /\ task[t].op = "hard_refresh_nonce"
    /\ task[t].pc \in {"hr_lock", "hr_fetch"}
    /\ task'[t].pc = "done"
    /\ \/ task[t].account_index \notin DOMAIN api_urls
       \/ last'[SlotOf(t)].fetch = FetchFailed

\* C25: an error of the engine or of the nonce manager ends the call with an
\* error outcome: a request whose engine call answered an error string or
\* that found no engine does not end with status 200, and neither does a
\* hard_refresh_nonce that had no endpoint or whose fetch failed
C25_ErrorsReachCaller ==
    /\ [](\A t \in Tasks :
            (/\ task[t].pc = "done"
             /\ \/ \E i \in 1..Len(task[t].calls) : task[t].calls[i].err
                \/ ~signer /\ task[t].op \in SignOps \cup AdminOps \cup {"create_client"})
                => task[t].status # 200)
    /\ [][\A t \in Tasks : RefreshFails(t) => task'[t].status # 200]_vars

\* task t served create_client for slot s and answered "Client created
\* successfully"
Created(t, s) ==
    /\ task[t].op = "create_client"
    /\ task[t].pc = "done"
    /\ task[t].status = 200
    /\ SlotOf(t) = s

\* the sign request of task t runs get_next_nonce's locked part in this step
ResolvesNonce(t) ==
    /\ task[t].op \in SignOps
    /\ task[t].pc = "gn_lock"
    /\ task'[t].pc # "gn_lock"

\* C26: when create_client succeeds for a pair, clients holds the request's
\* url and chain id under the pair's key and the pair has a nonce entry; a
\* sign request for a pair whose create_client has succeeded gets its nonce
\* from that entry: its get_next_nonce neither creates the entry nor fetches
C26_CreateClientRegistersAndSeeds ==
    [][\A t \in Tasks :
         /\ (task[t].pc # "done" /\ Created(t, SlotOf(t))')
               => LET ck == get_client_key(task[t].api_key_index, task[t].account_index) IN
                  /\ ck \in DOMAIN clients'
                  /\ clients'[ck] = [url |-> task[t].api_url, chain_id |-> task[t].chain_id,
                                     api_key_index |-> task[t].api_key_index,
                                     account_index |-> task[t].account_index]
                  /\ task[t].api_url \in Urls
                  /\ task[t].chain_id \in {300, 304}
                  /\ HasNonce(nonces', task[t].account_index, task[t].api_key_index)
         /\ (ResolvesNonce(t) /\ \E c \in Tasks : Created(c, SlotOf(t)))
               => /\ task'[t].pc # "gn_fetch"
                  /\ ~last'[SlotOf(t)].created
                  /\ last'[SlotOf(t)].fetch = NoFetch
                  /\ last'[SlotOf(t)].before = last'[SlotOf(t)].prior.after]_vars

\* a sign request took its nonce for a pair that create_client had registered
\* and seeded
C26_Witness ==
    \E t, c \in Tasks :
        /\ Created(c, SlotOf(t))
        /\ task[t].op \in SignOps
        /\ task[t].pc \in {"sign_global", "sign_engine", "done"}
        /\ last[SlotOf(t)].op = "get_next_nonce"
        /\ last[SlotOf(t)].prior.op = "initialize_account"
        /\ last[SlotOf(t)].prior.created

\* task t holds lock l or is queued for it
Requested(l, t) == l.holder = t \/ Waiting(l, t)

\* task t requests, in this step, the global lock or an account lock
RequestsOuterLock(t) ==
    \/ ~Requested(global_signer_lock, t) /\ Requested(global_signer_lock', t)
    \/ \E i \in 1..Len(locks') :
          /\ Requested(locks'[i], t)
          /\ i \in 1..Len(locks) => ~Requested(locks[i], t)

\* C27: a task that holds the nonce manager's lock waits for no other lock,
\* and the nonce manager's lock is the last lock a task takes: when a task
\* requests the global lock or an account lock it was not waiting for the
\* nonce manager's lock and, once the step is taken, neither holds it nor
\* waits for it (get_next_nonce has left `async with self.lock` when the sign
\* handler goes on to the global lock)
C27_NonceLockIsInnermost ==
    /\ [](\A t \in Tasks :
            lock.holder = t
               => /\ ~Waiting(global_signer_lock, t)
                  /\ ~WaitsAccountLock(locks, t))
    /\ [][\A t \in Tasks :
            RequestsOuterLock(t) => /\ ~Requested(lock', t)
                                    /\ ~Waiting(lock, t)]_vars

\* create_client holds the nonce manager's lock inside the global lock while a
\* sign request that holds its account lock waits for the nonce manager's lock
C27_Witness ==
    \E t1, t2 \in Tasks :
        /\ task[t1].op = "create_client"
        /\ lock.holder = t1
        /\ global_signer_lock.holder = t1
        /\ task[t2].op \in SignOps
        /\ Waiting(lock, t2)
        /\ HoldsAccountLock(locks, t2)

\* the engine has created a client for exactly the pair of task t's request
HasSession(t) ==
    get_client_key(task[t].api_key_index, task[t].account_index) \in DOMAIN clients

\* C29: when a sign request for (a, k), whose client was created, is about to
\* make its engine sign call, the engine's active client is the client of
\* (a, k), whatever clients were created for other accounts with key index k
C29_SignsUnderOwnSession ==
    \A t \in Tasks :
        (task[t].op \in SignOps /\ task[t].pc = "sign_engine" /\ HasSession(t))
           => engine.txClient = SlotOf(t)

\* initialize_account has registered slot s
Registered(s) ==
    \/ last[s].op = "initialize_account"
    \/ last[s].prior.op = "initialize_account"

\* C30: a hard_refresh_nonce of a registered slot fetches from the endpoint
\* the slot was registered with, also when another key slot of the account
\* was registered with another endpoint
C30_RefreshUsesSlotEndpoint ==
    \A t \in Tasks :
        (/\ task[t].op = "hard_refresh_nonce"
         /\ task[t].pc = "hr_fetch"
         /\ Registered(SlotOf(t)))
           => task[t].api_url = EndpointOf(SlotOf(t))

\* task t's initialize_account runs its locked part in this step, called
\* directly or by create_client
Registers(t) ==
    /\ task[t].pc = "ia_lock"
    /\ task'[t].pc # "ia_lock"

\* C31: initialize_account for a slot that has a counter stores the call's
\* endpoint for the account, does not fetch and changes no counter, and the
\* create_client that calls it has put its own url in the slot's registration
C31_ReregistrationKeepsNonce ==
    [][\A t \in Tasks :
         (Registers(t) /\ HasNonce(nonces, task[t].account_index, task[t].api_key_index))
            => /\ task'[t].pc = "done"
               /\ nonces' = nonces
               /\ api_urls'[task[t].account_index] = task[t].api_url
               /\ last'[SlotOf(t)].fetch = NoFetch
               /\ ~last'[SlotOf(t)].created
               /\ task[t].op = "create_client"
                     => clients'[get_client_key(task[t].api_key_index,
                                                task[t].account_index)].url = task[t].api_url]_vars

\* the slot was registered by create_client with one url and then again by
\* initialize_account with the other, which found the counter and is now the
\* stored endpoint
C31_Witness ==
    /\ clients # <<>> /\ api_urls # <<>>
    /\ clients[get_client_key(1, 1)].url = "http://x"
    /\ api_urls[1] = "http://y"
    /\ last[Slot1].op = "initialize_account" /\ ~last[Slot1].created
    /\ last[Slot1].prior.op = "initialize_account" /\ last[Slot1].prior.created

\* the engine answers task t's CreateClient with an error string in this step
CreateRejected(t) ==
    /\ task[t].op = "create_client"
    /\ task[t].pc = "cc_global"
    /\ task'[t].pc = "done"
    /\ task'[t].calls # <<>>
    /\ task'[t].calls[Len(task'[t].calls)].err

\* C32: a create_client whose CreateClient is rejected answers 400 with the
\* engine's error, has released the global lock, and leaves the
\* registrations, the nonce entries, the endpoints and the stored keys as
\* they were
C32_RejectedCreateChangesNothing ==
    [][\A t \in Tasks :
         CreateRejected(t)
            => /\ task'[t].status = 400 /\ task'[t].detail = "engine"
               /\ ~Requested(global_signer_lock', t)
               /\ clients' = clients
               /\ nonces' = nonces
               /\ api_urls' = api_urls
               /\ api_key_dict' = api_key_dict]_vars

\* task t makes its engine sign call in this step
SignsNow(t) ==
    /\ task[t].op \in SignOps
    /\ task[t].pc = "sign_engine"
    /\ task'[t].pc # "sign_engine"

\* C33: the sign calls of one slot are made in the order of their nonces.
\* When a request makes its engine sign call, its nonce is still the slot's
\* counter and, when the last call on the slot was a get_next_nonce, the
\* nonce that call returned (no other request of the slot has taken a nonce
\* since); a sign request's get_next_nonce with no
\* supplied nonce returns more than the counter it found, and no step of the
\* service lowers a counter; and no other request of the slot is between its
\* get_next_nonce and its sign call
C33_SignsInNonceOrder ==
    /\ [][\A t \in Tasks :
            /\ SignsNow(t)
                  => /\ task[t].ret = <<CurrentNonce(nonces, task[t].account_index,
                                                     task[t].api_key_index)>>
                     /\ last[SlotOf(t)].op = "get_next_nonce"
                           => last[SlotOf(t)].ret = task[t].ret[1]
                     /\ \A u \in Tasks \ {t} :
                           SlotOf(u) = SlotOf(t) => ~InSlotSection(u)
            /\ ResolvesNonce(t)
                  => /\ task'[t].ret[1] > CurrentNonce(nonces, task[t].account_index,
                                                     task[t].api_key_index)
                     /\ task'[t].ret[1] >= 0]_vars
    /\ [][\A s \in Slots :
            CurrentNonce(nonces', s[1], s[2]) >= CurrentNonce(nonces, s[1], s[2])]_vars

\* a second request of a slot is about to sign with the nonce after the one
\* the first request of the slot signed with
C33_Witness ==
    \E t1, t2 \in Tasks :
        /\ t1 # t2 /\ SlotOf(t1) = SlotOf(t2)
        /\ task[t1].op \in SignOps /\ task[t1].pc = "done" /\ task[t1].status = 200
        /\ task[t2].op \in SignOps /\ task[t2].pc = "sign_engine"
        /\ task[t2].ret = <<task[t1].ret[1] + 1>>

\* the seeding calls: initialize_account and get_next_nonce
SeedingOps == {"initialize_account", "get_next_nonce"}

\* task t is suspended in the seeding fetch of its slot
Seeding(t) == task[t].pc \in {"gn_fetch", "ia_fetch"}

\* task t's initialize_account or get_next_nonce returns in this step
SeedingCallReturns(t) ==
    /\ task[t].op \in SeedingOps
    /\ task[t].pc \in {"gn_lock", "gn_fetch", "ia_lock", "ia_fetch"}
    /\ task'[t].pc = "done"

\* C34: a slot is seeded once.  A seeding fetch starts only for a slot without
\* a counter and while no other task fetches for it; the call that fetches
\* creates the counter when the fetch answers or fails; a counter stays once
\* created; and a call of initialize_account or get_next_nonce that finds the
\* counter fetches nothing, seeds nothing, and (initialize_account) leaves it
\* as it is.  The call that creates the counter has fetched when it was given
\* an endpoint
C34_SeededOnce ==
    /\ [](\A t \in Tasks :
            Seeding(t) => /\ ~HasNonce(nonces, task[t].account_index, task[t].api_key_index)
                          /\ lock.holder = t
                          /\ \A u \in Tasks \ {t} : ~Seeding(u))
    /\ [][\A s \in Slots : HasNonce(nonces, s[1], s[2]) => HasNonce(nonces', s[1], s[2])]_vars
    /\ [][\A t \in Tasks :
            SeedingCallReturns(t)
               => IF HasNonce(nonces, task[t].account_index, task[t].api_key_index)
                  THEN /\ ~Seeding(t)
                       /\ last'[SlotOf(t)].fetch = NoFetch
                       /\ ~last'[SlotOf(t)].created
                       /\ last'[SlotOf(t)].cached = last'[SlotOf(t)].before
                       /\ task[t].op = "initialize_account" => nonces' = nonces
                  ELSE /\ HasNonce(nonces', task[t].account_index, task[t].api_key_index)
                       /\ last'[SlotOf(t)].created
                       /\ Seeding(t) <=> task[t].api_url # None
                       /\ Seeding(t) <=> last'[SlotOf(t)].fetch # NoFetch]_vars

\* while one call fetches the seed of the slot another first call for the
\* slot, made with an endpoint, waits for the nonce manager's lock
C34_Witness ==
    \E t1, t2 \in Tasks :
        /\ Seeding(t1)
        /\ task[t2].op \in SeedingOps
        /\ task[t2].api_url # None
        /\ SlotOf(t2) = SlotOf(t1)
        /\ Waiting(lock, t2)

\* C35: while no acknowledge_failure or hard_refresh_nonce has run on a slot
\* since a get_next_nonce with a supplied nonce s >= 0, the slot's counter is
\* at least s and a get_next_nonce with no supplied nonce returns more than s
\* (floor is the highest such s)
C35_SuppliedNonceIsFloor ==
    \A s \in Slots :
        last[s].floor >= 0 =>
            /\ CurrentNonce(nonces, s[1], s[2]) >= last[s].floor
            /\ last[s].after >= last[s].floor
            /\ (last[s].op = "get_next_nonce" /\ last[s].provided = -1)
                  => last[s].ret > last[s].floor

\* an unsupplied call returned more than a nonce supplied two calls before it,
\* a lower supplied nonce in between
C35_Witness ==
    \E s \in Slots :
        /\ last[s].op = "get_next_nonce" /\ last[s].provided = -1
        /\ last[s].prior.op = "get_next_nonce"
        /\ last[s].prior.provided >= 0
        /\ last[s].floor > last[s].prior.provided
        /\ last[s].ret > last[s].floor

\* C36: get_next_nonce returns no negative nonce, whatever calls of
\* initialize_account, get_next_nonce and acknowledge_failure came before
C36_NonceNeverNegative ==
    /\ \A s \in Slots : last[s].op = "get_next_nonce" => last[s].ret >= 0
    /\ \A t \in Tasks :
          (task[t].op = "get_next_nonce" /\ task[t].pc = "done") => task[t].ret[1] >= 0

\* the slots the model's callers name
AllSlots == Slots \cup EndpointSlots

\* task t runs a step of a nonce manager call in this step
NonceManagerStep(t) ==
    /\ task[t].pc \in {"gn_lock", "gn_fetch", "ia_lock", "ia_fetch", "hr_lock", "hr_fetch",
                       "ack_lock"}
    /\ task'[t] # task[t]

\* C37: a step changes the counter of a slot, or creates it, only as part of
\* a call for that slot: calls for (a, k) leave the counters of all other
\* slots, the other key slots of account a among them, as they are
C37_CountersPartitioned ==
    [][\A s \in AllSlots :
         (\/ CurrentNonce(nonces', s[1], s[2]) # CurrentNonce(nonces, s[1], s[2])
          \/ HasNonce(nonces', s[1], s[2]) # HasNonce(nonces, s[1], s[2]))
            => \E t \in Tasks : NonceManagerStep(t) /\ SlotOf(t) = s]_vars

\* both key slots of account 1 have counters, and the one of the first slot
\* has moved away from the one of the second
C37_Witness ==
    /\ HasNonce(nonces, 1, 1) /\ HasNonce(nonces, 1, 2)
    /\ nonces[1][1] # nonces[1][2]
    /\ last[<<1, 2>>].op \in {"get_next_nonce", "initialize_account"}
    /\ last[Slot1].op \in {"acknowledge_failure", "hard_refresh_nonce"}
    /\ last[Slot1].after # last[Slot1].before

\* C38: a hard_refresh_nonce that has no endpoint for the account, or whose
\* fetch fails, returns with every counter and entry as it was and with the
\* nonce manager's lock released
C38_FailedRefreshChangesNothing ==
    [][\A t \in Tasks :
         RefreshFails(t)
            => /\ nonces' = nonces
               /\ lock.holder = t
               /\ ~Requested(lock', t)
               /\ last'[SlotOf(t)].after = last'[SlotOf(t)].before
               /\ ~last'[SlotOf(t)].created]_vars

\* the fetch of a refresh failed on a slot whose counter had been taken from,
\* and the nonce manager's lock is free again
C38_Witness ==
    /\ last[Slot1].op = "hard_refresh_nonce"
    /\ last[Slot1].fetch = FetchFailed
    /\ last[Slot1].prior.op = "get_next_nonce"
    /\ CurrentNonce(nonces, 1, 1) = last[Slot1].prior.ret
    /\ CurrentNonce(nonces, 1, 1) # 0
    /\ lock = FreeLock

\* task t's call of op, waiting at pc, returns in this step
Returns(t, op, pc) ==
    /\ task[t].op = op
    /\ task[t].pc = pc
    /\ task'[t].pc = "done"

\* C39: acknowledge_failure on a slot without an entry creates none and
\* changes no counter; get_current_nonce changes nothing, returns -1 for a
\* slot without an entry and the counter of a slot that has one
C39_ReadAndRollbackOfAbsentSlot ==
    [][\A t \in Tasks :
         LET a == task[t].account_index
             k == task[t].api_key_index
             absent == a \notin DOMAIN nonces \/ k \notin DOMAIN nonces[a]
         IN  /\ (Returns(t, "acknowledge_failure", "ack_lock") /\ absent)
                   => /\ nonces' = nonces
                      /\ last'[<<a, k>>].after = -1
             /\ Returns(t, "get_current_nonce", "gc_lock")
                   => /\ nonces' = nonces
                      /\ task'[t].status = 200
                      /\ task'[t].ret = IF absent THEN <<-1>> ELSE <<nonces[a][k]>>]_vars

\* a rollback of a slot without an entry was followed by a get_current_nonce
\* that returned -1, and the slot still has no entry
C39_Witness ==
    \E t \in Tasks :
        /\ last[Slot1].op = "acknowledge_failure"
        /\ ~HasNonce(nonces, 1, 1)
        /\ task[t].op = "get_current_nonce" /\ task[t].pc = "done"
        /\ SlotOf(t) = Slot1
        /\ task[t].ret = <<-1>>

====
